---- MODULE Spec2Model ----
(***************************************************************************)
(* A model of gbuild: the stage pipeline and configuration reconciler of   *)
(* gbuild1.0.py, the Gerenciador of gbuild.py and the VersionTracker of    *)
(* version-tracker.py.                                                     *)
(*                                                                         *)
(* Text is modelled down to the character where the code inspects it: a    *)
(* line is a sequence of one-character strings (its trailing newline left  *)
(* out), a file's content is a sequence of lines, a file name is a         *)
(* sequence of characters.  A directory tree is a function from the names  *)
(* of the files that exist to their contents.                              *)
(***************************************************************************)
EXTENDS Integers, Sequences, FiniteSets, TLC

VARIABLES
    \* ---- gbuild1.0.py: build_stage / build_package
    recipes,      \* the recipes mapping: package |-> [deps: sequence of packages]
    order,        \* iteration order of recipes.items()
    i,            \* build_stage: index of the current package in order
    j,            \* build_stage: index of the current dep of that package
    pc,           \* build_stage: "idle", "run", "done" (returned), "raised" (exception)
    status,       \* per package: how its latest build_package invocation ended
    builds,       \* per package: number of build_package invocations
    ran,          \* per package: the steps its latest invocation executed
    fault,        \* per package: what went wrong outside in its latest invocation
    sandbox,      \* SANDBOX_DIR: whether it exists, and the work dirs in it
    \* ---- gbuild1.0.py: EtcManager
    live,         \* the tree under ETC_DIR
    newTree,      \* the tree under ETC_NEW_DIR
    backups,      \* the tree under ETC_BACKUP_DIR: <<timestamp, rel_path>> |-> content
    clock,        \* datetime.now(), in seconds
    pass,         \* number of process_all passes made
    auto,         \* the auto argument of the latest process_all pass
    \* ---- gbuild.py: Gerenciador
    pacotes,      \* BancoDados.pacotes: nome |-> PacoteInstalado
    lastInst,     \* what the latest instalar_pacote call was given and did
    \* ---- version-tracker.py: VersionTracker
    installed_packages,  \* name |-> recorded installed version
    manifest,     \* name |-> [version, update_policy, group]
    versions,     \* the descriptors of the latest check_updates
    rebuildOk,    \* name |-> whether a rebuild of the package succeeds
    calls,        \* number of VersionTracker calls made
    lastCall,     \* the latest VersionTracker call
    \* ---- gbuild.py: threads calling BancoDados.registrar_pacote
    regPc,        \* thread |-> its position in registrar_pacote
    regPkg,       \* thread |-> the PacoteInstalado it registers
    lock,         \* BancoDados.lock: "free" or the thread holding it
    lockOrder,    \* the threads in the order they took the lock
    \* ---- concurrent builds: build_package of gbuild1.0.py, and
    \* ---- configurar_sandbox / instalar_pacote of gbuild.py
    sbPc,         \* builder |-> position in build_package: "idle", "working", "done"
    sbPkg,        \* builder |-> the package it builds
    gsandbox,     \* Gerenciador.sandbox: [path_build, path_install, env]
    cfgPc,        \* builder |-> "idle", "configured" (before instalar_pacote), "done"
    cfgNome       \* builder |-> the nome of the recipe it installs

vars == <<recipes, order, i, j, pc, status, builds, ran, fault, sandbox,
          live, newTree, backups, clock, pass, auto, pacotes, lastInst,
          installed_packages, manifest, versions, rebuildOk, calls, lastCall,
          regPc, regPkg, lock, lockOrder,
          sbPc, sbPkg, gsandbox, cfgPc, cfgNome>>

stageVars == <<recipes, order, i, j, pc, status, builds, ran, fault, sandbox>>
etcVars   == <<live, newTree, backups, clock, pass, auto>>
instVars  == <<pacotes, lastInst>>
vtVars    == <<installed_packages, manifest, versions, rebuildOk, calls, lastCall>>
dbVars    == <<regPc, regPkg, lock, lockOrder>>
sbVars    == <<sbPc, sbPkg, gsandbox, cfgPc, cfgNome>>

(***************************************************************************)
(* Bounds.                                                                 *)
(***************************************************************************)
MaxLines  == 1    \* lines per configuration file at the start
MaxClock  == 1    \* seconds the clock may advance
MaxPasses == 2    \* process_all passes
MaxDeps   == 2    \* dependencias_build entries in the whole recipes mapping
MaxCalls  == 3    \* VersionTracker calls

(***************************************************************************)
(* Generic helpers.                                                        *)
(***************************************************************************)
Min(a, b) == IF a < b THEN a ELSE b
Max(a, b) == IF a > b THEN a ELSE b

\* Python's s[lo:hi] for 0 <= lo, as a sequence.
Slice(s, lo, hi) == SubSeq(s, lo + 1, Min(hi, Len(s)))

\* A mapping with key k set to v (dict assignment; a file written at a path).
Put(m, k, v) == [x \in DOMAIN m \cup {k} |-> IF x = k THEN v ELSE m[x]]

\* str.endswith for character sequences.
EndsWith(s, suffix) ==
    /\ Len(s) >= Len(suffix)
    /\ SubSeq(s, Len(s) - Len(suffix) + 1, Len(s)) = suffix

RECURSIVE SeqsUpTo(_, _)
SeqsUpTo(S, n) ==
    IF n = 0 THEN {<<>>}
    ELSE LET shorter == SeqsUpTo(S, n - 1)
         IN shorter \cup {Append(s, x) : s \in {t \in shorter : Len(t) = n - 1}, x \in S}

RECURSIVE Concat(_)
Concat(ss) == IF ss = <<>> THEN <<>> ELSE Head(ss) \o Concat(Tail(ss))

(***************************************************************************)
(* difflib, as EtcManager uses it (no junk heuristic: isjunk is None and   *)
(* autojunk only acts on sequences of 200 or more lines).                  *)
(* Indices are Python's: 0-based, half-open.                               *)
(***************************************************************************)

\* SequenceMatcher.find_longest_match: the longest block a[i:i+k] = b[j:j+k]
\* within a[alo:ahi], b[blo:bhi]; of those the one starting earliest in a, and
\* of those the one starting earliest in b; (alo, blo, 0) when nothing matches.
better_match(c, d) ==
    \/ c[3] > d[3]
    \/ c[3] = d[3] /\ c[1] < d[1]
    \/ c[3] = d[3] /\ c[1] = d[1] /\ c[2] < d[2]

best_match(cands, alo, blo) ==
    IF cands = {} THEN <<alo, blo, 0>>
    ELSE CHOOSE c \in cands : \A d \in cands \ {c} : better_match(c, d)

find_longest_match(a, b, alo, ahi, blo, bhi) ==
    best_match({c \in (alo..ahi) \X (blo..bhi) \X (1..Max(ahi - alo, 0)) :
                  /\ c[1] + c[3] <= ahi
                  /\ c[2] + c[3] <= bhi
                  /\ \A d \in 1..c[3] : a[c[1] + d] = b[c[2] + d]},
               alo, blo)

\* SequenceMatcher.get_matching_blocks before the merge of adjacent blocks:
\* the longest match, then the same to its left and to its right.
RECURSIVE matching_blocks(_, _, _, _, _, _)
blocks_around(a, b, alo, ahi, blo, bhi, m) ==
    IF m[3] = 0 THEN <<>>
    ELSE (IF alo < m[1] /\ blo < m[2]
          THEN matching_blocks(a, b, alo, m[1], blo, m[2]) ELSE <<>>)
         \o <<m>>
         \o (IF m[1] + m[3] < ahi /\ m[2] + m[3] < bhi
             THEN matching_blocks(a, b, m[1] + m[3], ahi, m[2] + m[3], bhi) ELSE <<>>)

matching_blocks(a, b, alo, ahi, blo, bhi) ==
    blocks_around(a, b, alo, ahi, blo, bhi,
                  find_longest_match(a, b, alo, ahi, blo, bhi))

\* get_matching_blocks' second half: adjacent blocks collapsed into one.
RECURSIVE collapse_blocks(_)
collapse_blocks(bs) ==
    IF Len(bs) <= 1 THEN bs
    ELSE LET x == bs[1]
             y == bs[2]
         IN IF x[1] + x[3] = y[1] /\ x[2] + x[3] = y[2]
            THEN collapse_blocks(<<<<x[1], x[2], x[3] + y[3]>>>> \o Tail(Tail(bs)))
            ELSE <<x>> \o collapse_blocks(Tail(bs))

get_matching_blocks(a, b) ==
    Append(collapse_blocks(matching_blocks(a, b, 0, Len(a), 0, Len(b))),
           <<Len(a), Len(b), 0>>)

\* SequenceMatcher.get_opcodes: <<tag, i1, i2, j1, j2>> turning a into b.
RECURSIVE opcodes_from(_, _, _)
opcodes_from(bs, pi, pj) ==
    IF bs = <<>> THEN <<>>
    ELSE LET ai == Head(bs)[1]
             bj == Head(bs)[2]
             size == Head(bs)[3]
             tag == IF pi < ai /\ pj < bj THEN "replace"
                    ELSE IF pi < ai THEN "delete"
                    ELSE IF pj < bj THEN "insert"
                    ELSE ""
         IN (IF tag # "" THEN <<<<tag, pi, ai, pj, bj>>>> ELSE <<>>)
            \o (IF size > 0 THEN <<<<"equal", ai, ai + size, bj, bj + size>>>> ELSE <<>>)
            \o opcodes_from(Tail(bs), ai + size, bj + size)

get_opcodes(a, b) == opcodes_from(get_matching_blocks(a, b), 0, 0)

\* unified_diff's n, the lines of context (its default: merge_files passes none).
DiffContext == 3

\* get_grouped_opcodes' fix-up of a leading and a trailing equal opcode.
trim_first(codes, f, n) ==
    IF f[1] = "equal"
    THEN <<<<"equal", Max(f[2], f[3] - n), f[3], Max(f[4], f[5] - n), f[5]>>>>
         \o Tail(codes)
    ELSE codes

trim_last(codes, l, n) ==
    IF l[1] = "equal"
    THEN SubSeq(codes, 1, Len(codes) - 1)
         \o <<<<"equal", l[2], Min(l[3], l[2] + n), l[4], Min(l[5], l[4] + n)>>>>
    ELSE codes

trim_nonempty(codes, n) == trim_first(codes, codes[1], n)

trim_ends(codes, n) ==
    LET c1 == trim_nonempty(IF codes = <<>> THEN <<<<"equal", 0, 1, 0, 1>>>> ELSE codes, n)
    IN trim_last(c1, c1[Len(c1)], n)

\* get_grouped_opcodes' loop: <<groups closed so far, the open group>>.
RECURSIVE group_loop(_, _, _, _)
group_loop(codes, n, groups, group) ==
    IF codes = <<>> THEN <<groups, group>>
    ELSE LET c == Head(codes)
         IN IF c[1] = "equal" /\ c[3] - c[2] > n + n
            THEN group_loop(Tail(codes), n,
                     Append(groups,
                            Append(group, <<"equal", c[2], Min(c[3], c[2] + n),
                                            c[4], Min(c[5], c[4] + n)>>)),
                     <<<<"equal", Max(c[2], c[3] - n), c[3], Max(c[4], c[5] - n), c[5]>>>>)
            ELSE group_loop(Tail(codes), n, groups, Append(group, c))

\* get_grouped_opcodes' last statement: the open group is yielded unless it
\* is empty or a lone equal opcode.
close_groups(groups, group) ==
    IF group # <<>> /\ ~(Len(group) = 1 /\ group[1][1] = "equal")
    THEN Append(groups, group)
    ELSE groups

close_loop(r) == close_groups(r[1], r[2])

get_grouped_opcodes(a, b, n) ==
    close_loop(group_loop(trim_ends(get_opcodes(a, b), n), n, <<>>, <<>>))

\* The lines unified_diff yields for one opcode.
opcode_lines(a, b, c) ==
    IF c[1] = "equal" THEN [x \in 1..(c[3] - c[2]) |-> <<" ">> \o a[c[2] + x]]
    ELSE (IF c[1] \in {"replace", "delete"}
          THEN [x \in 1..(c[3] - c[2]) |-> <<"-">> \o a[c[2] + x]] ELSE <<>>)
         \o (IF c[1] \in {"replace", "insert"}
             THEN [x \in 1..(c[5] - c[4]) |-> <<"+">> \o b[c[4] + x]] ELSE <<>>)

\* The hunk header "@@ -start,len +start,len @@": only its first characters
\* are modelled, the ranges are left out.
hunk_header == <<"@", "@", " ">>

group_lines(a, b, group) ==
    <<hunk_header>> \o Concat([x \in DOMAIN group |-> opcode_lines(a, b, group[x])])

\* difflib.unified_diff(a, b, fromfile='local', tofile='new').
diff_lines(a, b, groups) ==
    IF groups = <<>> THEN <<>>
    ELSE << <<"-", "-", "-", " ", "l", "o", "c", "a", "l">>,
            <<"+", "+", "+", " ", "n", "e", "w">> >>
         \o Concat([x \in DOMAIN groups |-> group_lines(a, b, groups[x])])

unified_diff(a, b) == diff_lines(a, b, get_grouped_opcodes(a, b, DiffContext))

\* difflib.restore(delta, which): the lines of delta whose first two
\* characters are "  " or the tag of `which`, without those two characters.
restore_tag(which) == IF which = 1 THEN <<"-", " ">> ELSE <<"+", " ">>

RECURSIVE restore(_, _)
restore(delta, which) ==
    IF delta = <<>> THEN <<>>
    ELSE (IF Slice(Head(delta), 0, 2) \in {<<" ", " ">>, restore_tag(which)}
          THEN <<Slice(Head(delta), 2, Len(Head(delta)))>> ELSE <<>>)
         \o restore(Tail(delta), which)

(***************************************************************************)
(* gbuild1.0.py: EtcManager.  A reconciler state is [live, backups]; the   *)
(* new tree is only read.                                                  *)
(***************************************************************************)
EmptyTree == <<>>

\* The files of the model: one under the merge rule, one under keep-local.
AppConf == <<"a", ".", "c", "o", "n", "f">>
Motd    == <<"m", "o", "t", "d">>
EtcFiles == {AppConf, Motd}

\* The lines configuration files are made of at the start.
LineAlphabet == {<<"x">>, <<" ", "y">>}
Contents == SeqsUpTo(LineAlphabet, MaxLines)
Trees == UNION {[S -> Contents] : S \in SUBSET EtcFiles}

\* datetime.now().strftime("%Y%m%d_%H%M%S"): the clock is kept in whole
\* seconds, so calls made within one second read the same timestamp.
strftime(now) == now

\* A mutant of backup_file: the snapshot is not stored.
backup_file_dropped(bk, tree, path, now) == bk

\* EtcManager.backup_file: copy the live file to
\* ETC_BACKUP_ROOT/<timestamp>/<rel_path>, overwriting what is there.
backup_file(bk, tree, path, now) == Put(bk, <<strftime(now), path>>, tree[path])

\* EtcManager.merge_files: the unified diff from the local to the new lines.
merge_files(local, new) == unified_diff(local, new)

\* A mutant of merge_rule: every file is merged, whatever its name.
merge_rule_all_merge(filename) == "merge"

\* The rule process_file selects (MERGE_RULES is never consulted).
merge_rule(filename) ==
    IF EndsWith(filename, <<".", "c", "o", "n", "f">>)
       \/ EndsWith(filename, <<".", "c", "f", "g">>)
    THEN "merge" ELSE "keep-local"

\* EtcManager.process_file(filename, auto) at time now.
\* process_file's merge branch, lines 119-124: st is the state after the backup.
apply_merge(st, filename, autoFlag, merged_diff) ==
    IF merged_diff # <<>> /\ autoFlag
    THEN [st EXCEPT !.live = Put(st.live, filename, restore(merged_diff, 1))]
    ELSE st

\* process_file's rule dispatch, lines 112-124: st is the state after the backup.
apply_rule(st, new, filename, autoFlag, rule) ==
    IF rule = "keep-local" THEN st
    ELSE IF rule = "replace"
    THEN [st EXCEPT !.live = Put(st.live, filename, new[filename])]
    ELSE apply_merge(st, filename, autoFlag,
                     merge_files(st.live[filename], new[filename]))

\* A mutant of process_file: the comparison of lines 107-109 is left out, so
\* an existing file is backed up and dispatched even when it is identical.
process_file_eager(st, new, filename, autoFlag, now) ==
    IF filename \notin DOMAIN st.live
    THEN [st EXCEPT !.live = Put(st.live, filename, new[filename])]
    ELSE apply_rule([st EXCEPT !.backups = backup_file(st.backups, st.live, filename, now)],
                    new, filename, autoFlag, merge_rule(filename))

\* EtcManager.process_file(filename, auto) at time now.
process_file(st, new, filename, autoFlag, now) ==
    IF filename \notin DOMAIN st.live
    THEN [st EXCEPT !.live = Put(st.live, filename, new[filename])]
    ELSE IF st.live[filename] = new[filename]
    THEN st
    ELSE apply_rule([st EXCEPT !.backups = backup_file(st.backups, st.live, filename, now)],
                    new, filename, autoFlag, merge_rule(filename))

\* EtcManager.process_all(auto): process_file for every file os.walk finds
\* under the new tree.  A pass is taken to complete within the clock second
\* `now`; process_file touches only its own file and its own backup path, so
\* the order of the walk does not matter.
RECURSIVE process_all_from(_, _, _, _, _)
process_all_from(st, new, files, autoFlag, now) ==
    IF files = {} THEN st
    ELSE LET f == CHOOSE x \in files : TRUE
         IN process_all_from(process_file(st, new, f, autoFlag, now),
                             new, files \ {f}, autoFlag, now)

process_all(st, new, autoFlag, now) ==
    process_all_from(st, new, DOMAIN new, autoFlag, now)

\* update_etc(stage_dir): one pass with auto on.
update_etc(st, new, now) == process_all(st, new, TRUE, now)

\* No instalar_pacote call is made (gbuild1.0.py has no package database).
IdleInst ==
    /\ pacotes = <<>>
    /\ lastInst = [receita |-> [nome |-> "", versao |-> "", flags_use |-> <<>>,
                               testes |-> "none", binario_disponivel |-> FALSE],
                  usar_binario |-> FALSE, rodar_testes |-> FALSE, testExit |-> 0,
                  hookFail |-> "none", steps |-> <<>>, state |-> "none"]

\* No VersionTracker exists.
IdleVT ==
    /\ installed_packages = <<>> /\ manifest = <<>> /\ versions = <<>>
    /\ rebuildOk = <<>> /\ calls = 0 /\ lastCall = "none"

\* The threads that may call into one Gerenciador.
Threads == {"t1", "t2", "t3"}

\* No thread has called registrar_pacote.
IdleDb ==
    /\ regPc = [t \in Threads |-> "idle"]
    /\ regPkg = [t \in Threads |-> [nome |-> "", versao |-> "", flags_use |-> <<>>]]
    /\ lock = "free" /\ lockOrder = <<>>

\* The builds that may be in flight at once.
Builders == {"b1", "b2"}

\* Gerenciador.__init__, line 83: Sandbox("/tmp/pm-sandbox/build",
\* "/tmp/pm-sandbox/install"), as path components under /tmp/pm-sandbox.
NewSandbox == [path_build |-> <<"build">>, path_install |-> <<"install">>, env |-> <<>>]

\* No concurrent build is in flight.
IdleSb ==
    /\ sbPc = [b \in Builders |-> "idle"]
    /\ sbPkg = [b \in Builders |-> ""]
    /\ gsandbox = NewSandbox
    /\ cfgPc = [b \in Builders |-> "idle"]
    /\ cfgNome = [b \in Builders |-> ""]

(***************************************************************************)
(* gbuild1.0.py: build_package and build_stage.                            *)
(***************************************************************************)
Pkgs == {"a", "b", "c"}

\* What the world does to one build_package invocation: nothing ("ok"), or
\* the first external operation that fails: curl, the checksum comparison,
\* tarfile, patch, or a command of the build driver.
Outcomes == {"ok", "download", "sha256", "extract", "patch", "build"}

\* build_package's steps, in the order of its body.
Pipeline == <<"prepare_sandbox", "download", "verify_sha256", "extract_tarball",
              "apply_patch", "build", "run_hooks", "update_etc", "clean_sandbox">>

\* The steps that build and install, after verification.
BuildSteps == {"extract_tarball", "apply_patch", "build", "run_hooks", "update_etc"}

\* A mutant of on_mismatch: the result of verify_sha256 is ignored.
on_mismatch_ignored == "ok"

\* What build_package does when verify_sha256 returns false: log and return.
on_mismatch == "return"

\* How a step ends: "ok" (the body goes on), "return" or "raise"
\* (subprocess.run(check=True) and tarfile raise on failure).
step_result(step, outcome) ==
    CASE step = "download" /\ outcome = "download" -> "raise"
      [] step = "verify_sha256" /\ outcome = "sha256" -> on_mismatch
      [] step = "extract_tarball" /\ outcome = "extract" -> "raise"
      [] step = "apply_patch" /\ outcome = "patch" -> "raise"
      [] step = "build" /\ outcome = "build" -> "raise"
      [] OTHER -> "ok"

\* The steps executed, up to and including the first that does not end "ok",
\* and how the body ended.
RECURSIVE run_from(_, _)
run_on(steps, outcome, r) ==
    IF r = "ok"
    THEN [run_from(Tail(steps), outcome) EXCEPT !.ran = <<Head(steps)>> \o @]
    ELSE [ran |-> <<Head(steps)>>, end |-> r]

run_from(steps, outcome) ==
    IF steps = <<>> THEN [ran |-> <<>>, end |-> "ok"]
    ELSE run_on(steps, outcome, step_result(Head(steps), outcome))

NoSandbox == [exists |-> FALSE, dirs |-> {}]

\* prepare_sandbox, and build_package's makedirs of the package's work dir.
prepare_sandbox(sb, package) == [exists |-> TRUE, dirs |-> sb.dirs \cup {package}]

\* clean_sandbox: the whole SANDBOX_DIR is removed.
clean_sandbox(sb) == NoSandbox

\* The effect of one executed step on [sandbox, live, backups].
with_etc(st, e) == [st EXCEPT !.live = e.live, !.backups = e.backups]

step_effect(st, new, package, step, now) ==
    CASE step = "prepare_sandbox" ->
             [st EXCEPT !.sandbox = prepare_sandbox(st.sandbox, package)]
      [] step = "update_etc" ->
             with_etc(st, update_etc([live |-> st.live, backups |-> st.backups], new, now))
      [] step = "clean_sandbox" ->
             [st EXCEPT !.sandbox = clean_sandbox(st.sandbox)]
      [] OTHER -> st

RECURSIVE apply_steps(_, _, _, _, _)
apply_steps(st, new, package, steps, now) ==
    IF steps = <<>> THEN st
    ELSE apply_steps(step_effect(st, new, package, Head(steps), now),
                     new, package, Tail(steps), now)

\* build_package(stage, package, recipe) under `outcome`:
\* the state it leaves, the steps it executed and how it ended.
build_result(st, new, package, r, now) ==
    [st |-> apply_steps(st, new, package, r.ran, now), ran |-> r.ran, end |-> r.end]

build_package(st, new, package, outcome, now) ==
    build_result(st, new, package, run_from(Pipeline, outcome), now)

\* recipe.get('dependencias_build', []) of the package build_stage is at.
CurDeps == recipes[order[i]].deps

\* A build_package call made by build_stage; an exception leaves build_stage.
Invoked(package, outcome, r) ==
    /\ builds' = [builds EXCEPT ![package] = @ + 1]
    /\ status' = [status EXCEPT ![package] = IF r.end = "ok" THEN "DONE" ELSE "FAILED"]
    /\ fault' = [fault EXCEPT ![package] = outcome]
    /\ ran' = [ran EXCEPT ![package] = {r.ran[k] : k \in DOMAIN r.ran}]
    /\ sandbox' = r.st.sandbox
    /\ live' = r.st.live
    /\ backups' = r.st.backups
    /\ pass' = IF "update_etc" \in ran'[package] THEN pass + 1 ELSE pass
    /\ auto' = IF "update_etc" \in ran'[package] THEN TRUE ELSE auto
    /\ pc' = IF r.end = "raise" THEN "raised" ELSE pc
    /\ UNCHANGED <<recipes, order, newTree, clock, instVars, vtVars, dbVars, sbVars>>

Invoke(package, outcome) ==
    Invoked(package, outcome,
            build_package([sandbox |-> sandbox, live |-> live, backups |-> backups],
                          newTree, package, outcome, clock))

\* A mutant of StageBuildDep: the loop over deps does not advance.
StageBuildDep_stuck ==
    /\ pc = "run" /\ i <= Len(order) /\ j <= Len(CurDeps)
    /\ CurDeps[j] \in DOMAIN recipes
    /\ \E o \in Outcomes : Invoke(CurDeps[j], o)
    /\ i' = i
    /\ j' = j

\* build_stage, line 193: a dep that is a key of recipes is built.
StageBuildDep ==
    /\ pc = "run" /\ i <= Len(order) /\ j <= Len(CurDeps)
    /\ CurDeps[j] \in DOMAIN recipes
    /\ \E o \in Outcomes : Invoke(CurDeps[j], o)
    /\ i' = i
    /\ j' = IF pc' = "raised" THEN j ELSE j + 1

\* build_stage, line 192: a dep that is no key of recipes is passed over.
StageSkipDep ==
    /\ pc = "run" /\ i <= Len(order) /\ j <= Len(CurDeps)
    /\ CurDeps[j] \notin DOMAIN recipes
    /\ j' = j + 1
    /\ UNCHANGED <<recipes, order, i, pc, status, builds, ran, fault, sandbox,
                   etcVars, instVars, vtVars, dbVars, sbVars>>

\* build_stage, line 194: after its deps the package itself is built.
StageBuildPackage ==
    /\ pc = "run" /\ i <= Len(order) /\ j > Len(CurDeps)
    /\ \E o \in Outcomes : Invoke(order[i], o)
    /\ i' = IF pc' = "raised" THEN i ELSE i + 1
    /\ j' = IF pc' = "raised" THEN j ELSE 1

\* build_stage returns when recipes.items() is exhausted.
StageReturn ==
    /\ pc = "run" /\ i > Len(order)
    /\ pc' = "done"
    /\ UNCHANGED <<recipes, order, i, j, status, builds, ran, fault, sandbox,
                   etcVars, instVars, vtVars, dbVars, sbVars>>

\* The dependency lists of the model: no package twice.
DepSeqs == {s \in SeqsUpTo(Pkgs, MaxDeps) : \A x, y \in DOMAIN s : s[x] = s[y] => x = y}

RECURSIVE TotalDeps(_, _)
TotalDeps(rs, keys) ==
    IF keys = {} THEN 0
    ELSE LET k == CHOOSE x \in keys : TRUE
         IN Len(rs[k].deps) + TotalDeps(rs, keys \ {k})

\* recipes.items() iterates in insertion order.  The model inserts the keys
\* in the order a, b, c: as the dependency lists range over every graph on
\* the keys, every pair of a graph and an iteration order occurs up to a
\* renaming of the packages.
KeyOrder == <<"a", "b", "c">>
RECURSIVE OrderOf(_, _)
OrderOf(keys, s) ==
    IF s = <<>> THEN <<>>
    ELSE (IF Head(s) \in keys THEN <<Head(s)>> ELSE <<>>) \o OrderOf(keys, Tail(s))

IdleStage ==
    /\ recipes = <<>> /\ order = <<>> /\ i = 1 /\ j = 1 /\ pc = "idle"
    /\ status = [p \in Pkgs |-> "none"]
    /\ builds = [p \in Pkgs |-> 0]
    /\ ran = [p \in Pkgs |-> {}]
    /\ fault = [p \in Pkgs |-> "ok"]
    /\ sandbox = NoSandbox

IdleEtc ==
    /\ live = EmptyTree /\ newTree = EmptyTree /\ backups = EmptyTree
    /\ clock = 0 /\ pass = 0 /\ auto = TRUE


\* build_stage(stage, recipes) is called on a fresh system whose new
\* configuration tree ships one file.
Init ==
    /\ \E keys \in (SUBSET Pkgs) \ {{}} :
          /\ recipes \in {rs \in [keys -> [deps : DepSeqs]] : TotalDeps(rs, keys) <= MaxDeps}
          /\ order = OrderOf(keys, KeyOrder)
    /\ i = 1 /\ j = 1 /\ pc = "run"
    /\ status = [p \in Pkgs |-> "none"]
    /\ builds = [p \in Pkgs |-> 0]
    /\ ran = [p \in Pkgs |-> {}]
    /\ fault = [p \in Pkgs |-> "ok"]
    /\ sandbox = NoSandbox
    /\ live = EmptyTree
    /\ newTree = [f \in {AppConf} |-> <<<<"x">>>>]
    /\ backups = EmptyTree
    /\ clock = 0 /\ pass = 0 /\ auto = TRUE
    /\ IdleInst /\ IdleVT /\ IdleDb /\ IdleSb

Next == StageBuildDep \/ StageSkipDep \/ StageBuildPackage \/ StageReturn

Spec == Init /\ [][Next]_vars

(***************************************************************************)
(* The reconciler on its own: process_all passes over an unchanged new     *)
(* tree, with time passing between them.                                   *)
(***************************************************************************)
EtcProcessed(e, a, now) ==
    /\ live' = e.live
    /\ backups' = e.backups
    /\ clock' = now
    /\ pass' = pass + 1
    /\ auto' = a
    /\ UNCHANGED <<stageVars, newTree, instVars, vtVars, dbVars, sbVars>>

\* EtcManager.process_all(auto), called at second `now`, not before the
\* previous pass.
EtcProcessAll ==
    /\ pass < MaxPasses
    /\ \E a \in BOOLEAN, now \in clock..MaxClock :
          EtcProcessed(process_all([live |-> live, backups |-> backups], newTree, a, now),
                       a, now)

InitEtc ==
    /\ IdleStage
    /\ live \in Trees
    /\ newTree \in Trees
    /\ backups = EmptyTree
    /\ clock = 0 /\ pass = 0 /\ auto = TRUE
    /\ IdleInst /\ IdleVT /\ IdleDb /\ IdleSb

NextEtc == EtcProcessAll

SpecEtc == InitEtc /\ [][NextEtc]_vars

(***************************************************************************)
(* gbuild.py: Gerenciador.instalar_pacote and BancoDados.                  *)
(***************************************************************************)
Nomes == {"zlib", "gcc"}
Versoes == {"1.0", "2.0"}

\* The recipes of the model; testes is "none" (no Testes), or a Testes with
\* required True ("required") or False ("optional").
Receitas == [nome : Nomes, versao : Versoes, flags_use : {<<>>},
             testes : {"none", "required", "optional"},
             binario_disponivel : BOOLEAN]

\* BancoDados.registrar_pacote: pacotes[pkg.nome] = pkg, under the lock.
registrar_pacote(db, pkg) == Put(db, pkg.nome, pkg)

\* PacoteInstalado(nome, versao, flags_use) as instalar_pacote builds it.
PacoteInstalado(receita) ==
    [nome |-> receita.nome, versao |-> receita.versao, flags_use |-> receita.flags_use]

\* Gerenciador.rodar_testes: prints; the command is not run, so its exit
\* status is never looked at and nothing is raised or returned.
rodar_testes(testes, testExit) == "ok"

\* The phases a recipe's Hooks has commands for.
HookPhases == {"pre_download", "pre_build", "post_build", "post_install"}

\* Gerenciador.executar_hooks: prints every command; none is run, so a
\* command that would fail raises nothing and returns nothing.
executar_hooks(phase, hookFail) == "ok"

\* The steps of the source path of instalar_pacote, lines 100-114: download
\* (line 100), configure (line 102), compile (line 103), the tests, the
\* post_build hooks and the installation into the sandbox.
source_path(receita, rodar) ==
    <<"download", "configure", "compile">>
    \o (IF rodar /\ receita.testes # "none" THEN <<"rodar_testes">> ELSE <<>>)
    \o <<"post_build", "install_sandbox">>

\* A mutant of instalar_steps: the source path is taken whatever is asked.
instalar_steps_source(receita, usar_binario, rodar) ==
    <<"pre_download">> \o source_path(receita, rodar)
    \o <<"post_install", "registrar_pacote">>

\* The steps instalar_pacote executes, in order; the pre_build hooks are not
\* among them (receita.hooks.pre_build is never passed to executar_hooks).
instalar_steps(receita, usar_binario, rodar) ==
    <<"pre_download">>
    \o (IF usar_binario /\ receita.binario_disponivel
        THEN <<"install_binary">>
        ELSE source_path(receita, rodar))
    \o <<"post_install", "registrar_pacote">>

\* Gerenciador.instalar_pacote(receita, usar_binario, rodar_testes); testExit
\* is the exit status the recipe's test command has when it is run, hookFail
\* the phase whose hook command fails when it is run, if any.
InstalarPacote ==
    \E receita \in Receitas, usar_binario \in BOOLEAN, rodar \in BOOLEAN,
       testExit \in {0, 1}, hookFail \in HookPhases \cup {"none"} :
        /\ lastInst' = [receita |-> receita, usar_binario |-> usar_binario,
                        rodar_testes |-> rodar, testExit |-> testExit,
                        hookFail |-> hookFail,
                        steps |-> instalar_steps(receita, usar_binario, rodar),
                        state |-> "DONE"]
        /\ pacotes' = registrar_pacote(pacotes, PacoteInstalado(receita))
        /\ UNCHANGED <<stageVars, etcVars, vtVars, dbVars, sbVars>>

InitInst == IdleStage /\ IdleEtc /\ IdleInst /\ IdleVT /\ IdleDb /\ IdleSb

NextInst == InstalarPacote

SpecInst == InitInst /\ [][NextInst]_vars

(***************************************************************************)
(* gbuild.py: BancoDados.registrar_pacote called from several threads.     *)
(* A thread's positions: "idle" (no call), "acquire" (at line 73, before   *)
(* the lock is taken), "locked" (holding it, before line 74), "written"    *)
(* (after line 74, holding it), "done" (lock released).                    *)
(***************************************************************************)
\* The records registrar_pacote is called with.
PacotesInstalados == [nome : Nomes, versao : Versoes, flags_use : {<<>>}]

\* A mutant of lock_free: the lock never blocks.
lock_free_always(l) == TRUE

\* threading.Lock: acquire goes through only while no thread holds the lock.
lock_free(l) == l = "free"

\* A thread calls registrar_pacote(pkg).
RegCall(t) ==
    /\ regPc[t] = "idle"
    /\ \E pkg \in PacotesInstalados : regPkg' = [regPkg EXCEPT ![t] = pkg]
    /\ regPc' = [regPc EXCEPT ![t] = "acquire"]
    /\ UNCHANGED <<stageVars, etcVars, instVars, vtVars, sbVars, lock, lockOrder>>

\* Line 73, `with self.lock:` entered.
RegAcquire(t) ==
    /\ regPc[t] = "acquire"
    /\ lock_free(lock)
    /\ lock' = t
    /\ lockOrder' = Append(lockOrder, t)
    /\ regPc' = [regPc EXCEPT ![t] = "locked"]
    /\ UNCHANGED <<stageVars, etcVars, instVars, vtVars, sbVars, regPkg>>

\* Line 74, self.pacotes[pkg.nome] = pkg.
RegWrite(t) ==
    /\ regPc[t] = "locked"
    /\ pacotes' = registrar_pacote(pacotes, regPkg[t])
    /\ regPc' = [regPc EXCEPT ![t] = "written"]
    /\ UNCHANGED <<stageVars, etcVars, lastInst, vtVars, sbVars, regPkg, lock, lockOrder>>

\* Line 73, `with self.lock:` left.
RegRelease(t) ==
    /\ regPc[t] = "written"
    /\ lock' = "free"
    /\ regPc' = [regPc EXCEPT ![t] = "done"]
    /\ UNCHANGED <<stageVars, etcVars, instVars, vtVars, sbVars, regPkg, lockOrder>>

InitDb == IdleStage /\ IdleEtc /\ IdleInst /\ IdleVT /\ IdleDb /\ IdleSb

NextDb == \E t \in Threads : RegCall(t) \/ RegAcquire(t) \/ RegWrite(t) \/ RegRelease(t)

SpecDb == InitDb /\ [][NextDb]_vars

(***************************************************************************)
(* Builds in flight at once.  In gbuild1.0.py every build_package          *)
(* invocation works under the one SANDBOX_DIR; in gbuild.py every          *)
(* installation uses the one Sandbox object of the Gerenciador.            *)
(***************************************************************************)
\* build_package, lines 146-148: prepare_sandbox and the work dir.
SbPrepare(b) ==
    /\ sbPc[b] = "idle"
    /\ \E p \in Pkgs :
          /\ sbPkg' = [sbPkg EXCEPT ![b] = p]
          /\ sandbox' = prepare_sandbox(sandbox, p)
    /\ sbPc' = [sbPc EXCEPT ![b] = "working"]
    /\ UNCHANGED <<recipes, order, i, j, pc, status, builds, ran, fault,
                   etcVars, instVars, vtVars, dbVars, gsandbox, cfgPc, cfgNome>>

\* build_package, line 183: the build has succeeded, clean_sandbox.
SbClean(b) ==
    /\ sbPc[b] = "working"
    /\ sandbox' = clean_sandbox(sandbox)
    /\ sbPc' = [sbPc EXCEPT ![b] = "done"]
    /\ UNCHANGED <<recipes, order, i, j, pc, status, builds, ran, fault,
                   etcVars, instVars, vtVars, dbVars, sbPkg, gsandbox, cfgPc, cfgNome>>

\* build_package, line 155, or an exception: the build ends without
\* clean_sandbox.
SbAbort(b) ==
    /\ sbPc[b] = "working"
    /\ sbPc' = [sbPc EXCEPT ![b] = "done"]
    /\ UNCHANGED <<stageVars, etcVars, instVars, vtVars, dbVars,
                   sbPkg, gsandbox, cfgPc, cfgNome>>

\* The paths configurar_sandbox computes, as components under /tmp/pm-sandbox.
build_path(nome) == <<"build", nome>>
install_path(nome) == <<"install", nome>>

\* Gerenciador.configurar_sandbox(receita).
configurar_sandbox(sb, nome) ==
    [path_build |-> build_path(nome),
     path_install |-> install_path(nome),
     env |-> Put(sb.env, "SANDBOX", install_path(nome))]

\* A builder calls configurar_sandbox for its recipe.
GConfigurar(b) ==
    /\ cfgPc[b] = "idle"
    /\ \E nome \in Nomes :
          /\ cfgNome' = [cfgNome EXCEPT ![b] = nome]
          /\ gsandbox' = configurar_sandbox(gsandbox, nome)
    /\ cfgPc' = [cfgPc EXCEPT ![b] = "configured"]
    /\ UNCHANGED <<stageVars, etcVars, instVars, vtVars, dbVars, sbPc, sbPkg>>

\* The builder's instalar_pacote, which installs under self.sandbox.path_install
\* (line 114), has run.
GInstalar(b) ==
    /\ cfgPc[b] = "configured"
    /\ cfgPc' = [cfgPc EXCEPT ![b] = "done"]
    /\ UNCHANGED <<stageVars, etcVars, instVars, vtVars, dbVars,
                   sbPc, sbPkg, gsandbox, cfgNome>>

InitSandbox == IdleStage /\ IdleEtc /\ IdleInst /\ IdleVT /\ IdleDb /\ IdleSb

NextSandbox ==
    \E b \in Builders :
        SbPrepare(b) \/ SbClean(b) \/ SbAbort(b) \/ GConfigurar(b) \/ GInstalar(b)

SpecSandbox == InitSandbox /\ [][NextSandbox]_vars

(***************************************************************************)
(* version-tracker.py: VersionTracker.                                     *)
(***************************************************************************)
Policies == {"notify", "auto"}

\* The group of a manifest entry: None or a group name.
Groups == {"None", "@desktop"}

\* The group names update_group is called with.
GroupNames == {"@core", "@desktop"}

\* A mutant of check_updates' test: the versions are not compared.
needs_update_any(inst, man, name) == name \in DOMAIN man

\* check_updates, lines 79-81: the installed package is in the manifest
\* with another version.
needs_update(inst, man, name) ==
    name \in DOMAIN man /\ inst[name] # man[name].version

\* check_updates, line 82: the descriptor.
descriptor(inst, man, name) ==
    <<inst[name], man[name].version, man[name].update_policy, man[name].group>>

\* VersionTracker.check_updates: the loop over installed_packages.items().
RECURSIVE check_updates_from(_, _, _, _)
check_updates_from(inst, man, names, updates) ==
    IF names = {} THEN updates
    ELSE LET name == CHOOSE x \in names : TRUE
         IN check_updates_from(inst, man, names \ {name},
                IF needs_update(inst, man, name)
                THEN Put(updates, name, descriptor(inst, man, name))
                ELSE updates)

check_updates(inst, man) == check_updates_from(inst, man, DOMAIN inst, <<>>)

\* The loop shared by update_auto and update_group: for every descriptor the
\* caller selects, installed_packages[name].version = new_ver.  No build is
\* invoked (lines 93-94 and 114 are comments), so whether a rebuild would
\* succeed is not looked at.
RECURSIVE update_from(_, _, _)
update_from(inst, vers, names) ==
    IF names = {} THEN inst
    ELSE LET name == CHOOSE x \in names : TRUE
         IN update_from([inst EXCEPT ![name] = vers[name][2]], vers, names \ {name})

\* A mutant of update_auto: the policy of the descriptor is not looked at.
update_auto_all(inst, vers) == update_from(inst, vers, DOMAIN vers)

\* VersionTracker.update_auto.
update_auto(inst, vers) ==
    update_from(inst, vers, {n \in DOMAIN vers : vers[n][3] = "auto"})

\* VersionTracker.update_group(group_name).
update_group(inst, vers, group_name) ==
    update_from(inst, vers,
                {n \in DOMAIN vers : vers[n][4] = group_name /\ vers[n][3] = "auto"})

\* VersionTracker.notify: log lines only.
notify(inst, vers) == inst

VTCalled(name, inst, vers) ==
    /\ calls < MaxCalls
    /\ calls' = calls + 1
    /\ lastCall' = name
    /\ installed_packages' = inst
    /\ versions' = vers
    /\ UNCHANGED <<stageVars, etcVars, instVars, dbVars, sbVars, manifest, rebuildOk>>

CheckUpdates ==
    VTCalled("check_updates", installed_packages,
             check_updates(installed_packages, manifest))

Notify == VTCalled("notify", notify(installed_packages, versions), versions)

UpdateAuto ==
    VTCalled("update_auto", update_auto(installed_packages, versions), versions)

UpdateGroup ==
    \E g \in GroupNames :
        VTCalled("update_group", update_group(installed_packages, versions, g), versions)

\* The trees of installed packages and manifests VersionTracker.__init__ loads.
InstalledDbs == UNION {[S -> Versoes] : S \in SUBSET Nomes}
Manifests ==
    UNION {[S -> [version : Versoes, update_policy : Policies, group : Groups]] :
             S \in SUBSET Nomes}

InitVT ==
    /\ IdleStage /\ IdleEtc /\ IdleInst /\ IdleDb /\ IdleSb
    /\ installed_packages \in InstalledDbs
    /\ manifest \in Manifests
    /\ versions = <<>>
    /\ rebuildOk \in [Nomes -> BOOLEAN]
    /\ calls = 0 /\ lastCall = "none"

NextVT == CheckUpdates \/ Notify \/ UpdateAuto \/ UpdateGroup

SpecVT == InitVT /\ [][NextVT]_vars

(***************************************************************************)
(* Vocabulary of the claims.                                               *)
(***************************************************************************)
\* The in-stage build-time dependencies of p: its deps that are keys of recipes.
InStageDeps(p) ==
    IF p \in DOMAIN recipes
    THEN {recipes[p].deps[k] : k \in DOMAIN recipes[p].deps} \cap DOMAIN recipes
    ELSE {}

RECURSIVE DepClosure(_)
DepClosure(S) ==
    LET T == S \cup UNION {InStageDeps(q) : q \in S}
    IN IF T = S THEN S ELSE DepClosure(T)

\* The direct and transitive in-stage dependencies of p.
TransDeps(p) == DepClosure(InStageDeps(p))

\* The in-stage dependency graph has no cycle.
Acyclic == \A p \in DOMAIN recipes : p \notin TransDeps(p)

\* This step is a build_package invocation for p.
Starts(p) == builds'[p] = builds[p] + 1

\* This step is a process_all pass.
IsPass == pass' = pass + 1

\* The lines of a file content.
LinesOf(content) == {content[k] : k \in DOMAIN content}

\* Some backup of file f holds `content`.
BackedUp(bk, f, content) == \E k \in DOMAIN bk : k[2] = f /\ bk[k] = content

\* This step is the VersionTracker call `name`.
IsCall(name) == calls' = calls + 1 /\ lastCall' = name

\* The installed packages check_updates has to report.
Outdated ==
    {n \in DOMAIN installed_packages \cap DOMAIN manifest :
        installed_packages[n] # manifest[n].version}

\* The threads whose write of line 74 has been made.
Writers == {t \in Threads : regPc[t] \in {"written", "done"}}

\* The last thread, in the order the lock was taken, that has written a
\* record for name n; "none" if there is none.
RECURSIVE LastWriter(_, _)
LastWriter(n, order_) ==
    IF order_ = <<>> THEN "none"
    ELSE LET t == order_[Len(order_)]
         IN IF t \in Writers /\ regPkg[t].nome = n THEN t
            ELSE LastWriter(n, SubSeq(order_, 1, Len(order_) - 1))

\* The steps the latest instalar_pacote call executed.
StepsDone == {lastInst.steps[k] : k \in DOMAIN lastInst.steps}

\* The latest instalar_pacote call was a binary-install request for a recipe
\* with a binary available.
BinaryRequest == lastInst.usar_binario /\ lastInst.receita.binario_disponivel

\* The number of times package p is listed in the dependencias_build of the
\* keys of recipes.
Listings(p) ==
    Cardinality({e \in (DOMAIN recipes) \X (1..MaxDeps) :
                    e[2] \in DOMAIN recipes[e[1]].deps /\ recipes[e[1]].deps[e[2]] = p})

\* The build_package invocations build_stage makes for p when no build raises.
Invocations(p) == IF p \in DOMAIN recipes THEN 1 + Listings(p) ELSE 0

\* A name that ends in neither .conf nor .cfg.
KeepLocalName(f) ==
    /\ ~EndsWith(f, <<".", "c", "o", "n", "f">>)
    /\ ~EndsWith(f, <<".", "c", "f", "g">>)

\* This step stores or changes no backup of file f.
NoBackupOf(f) ==
    \A k \in DOMAIN backups' :
        k[2] = f => (k \in DOMAIN backups /\ backups'[k] = backups[k])

(***************************************************************************)
(* The claims.                                                             *)
(***************************************************************************)

\* C1 (as claimed): for an acyclic in-stage dependency graph, build_package
\* starts for a package only when the latest build of every one of its direct
\* and transitive in-stage dependencies has ended DONE.
C1_DepsDoneBeforeStart ==
    [][\A p \in Pkgs :
          (Acyclic /\ Starts(p)) => \A d \in TransDeps(p) : status[d] = "DONE"]_vars

\* C2: a package whose latest build_package invocation met a checksum mismatch
\* executed none of the steps after verification (extract, patch, build and
\* install, post_install hook, config reconciliation), did not end DONE, and
\* has no entry in the package database.
C2_MismatchAborts ==
    \A p \in Pkgs :
        (builds[p] > 0 /\ fault[p] = "sha256") =>
            /\ ran[p] \cap BuildSteps = {}
            /\ status[p] = "FAILED"
            /\ p \notin DOMAIN pacotes

\* C2's case: some package's build was aborted at verification.
C2_Witness ==
    \E p \in Pkgs :
        /\ builds[p] > 0 /\ fault[p] = "sha256"
        /\ ran[p] = {"prepare_sandbox", "download", "verify_sha256"}

\* C3 (as claimed): after an instalar_pacote call with rodar_testes on, for a
\* source build of a recipe whose test is required and whose test command
\* fails, the package is FAILED and registrar_pacote was not executed for it.
C3_TestGate ==
    (/\ lastInst.state # "none"
     /\ lastInst.rodar_testes
     /\ ~(lastInst.usar_binario /\ lastInst.receita.binario_disponivel)
     /\ lastInst.receita.testes = "required"
     /\ lastInst.testExit # 0)
    => /\ lastInst.state = "FAILED"
       /\ \A k \in DOMAIN lastInst.steps : lastInst.steps[k] # "registrar_pacote"

\* C4: in a process_all pass, every live file that exists and differs from
\* its new counterpart has its pre-existing content in a backup afterwards,
\* whatever its rule; so every live file the pass changes has its prior
\* content backed up.
C4_BackupBeforeWrite ==
    [][IsPass =>
          \A f \in DOMAIN newTree \cap DOMAIN live :
              /\ live[f] # newTree[f] => BackedUp(backups', f, live[f])
              /\ live'[f] # live[f] => BackedUp(backups', f, live[f])]_vars

\* C4's case: a pass has rewritten the merge-rule file and a backup holds
\* content the live file no longer has.
C4_Witness ==
    /\ pass = 1
    /\ AppConf \in DOMAIN live
    /\ \E k \in DOMAIN backups : k[2] = AppConf /\ backups[k] # live[AppConf]

\* C5 (as claimed): after every build_package invocation that did not end in
\* a patch failure (success, checksum mismatch, download, extraction or
\* build-driver failure) no sandbox is left.  Stated for acyclic graphs, where
\* it already fails.
C5_SandboxReclaimed ==
    [][\A p \in Pkgs :
          (Acyclic /\ Starts(p) /\ fault'[p] # "patch") => ~sandbox'.exists]_vars

\* C6 (as claimed): when build_stage has ended, every package of the stage
\* that did not fail and has no failed package among its direct and transitive
\* in-stage dependencies has been built to completion.  Stated for acyclic
\* graphs, where it already fails.
C6_SiblingsBuilt ==
    (Acyclic /\ pc \in {"done", "raised"}) =>
        \A p \in DOMAIN recipes :
            (\A q \in {p} \cup TransDeps(p) : status[q] # "FAILED") => status[p] = "DONE"

\* C7 (as claimed): build_package never starts for a package one of whose
\* in-stage dependencies has failed.  Stated for acyclic graphs, where it
\* already fails.
C7_DependentsSkipped ==
    [][\A p \in Pkgs :
          (Acyclic /\ Starts(p)) => \A d \in InStageDeps(p) : status[d] # "FAILED"]_vars

\* C8 (as claimed): within one run of build_stage build_package is invoked at
\* most once for each package.  Stated for acyclic graphs and runs in which
\* no build has failed, where it already fails.
C8_BuiltOnce ==
    (Acyclic /\ \A q \in Pkgs : status[q] # "FAILED") => \A p \in Pkgs : builds[p] <= 1

\* C9 (as claimed): after a pass with auto on, a merge-rule file that existed
\* and differed holds every line of the new version (the lines it added and
\* the lines it shares with the local file), and its prior content is backed
\* up.  Stated for non-empty local files, where it already fails.
C9_MergeLayersNew ==
    [][(IsPass /\ auto') =>
          \A f \in DOMAIN newTree \cap DOMAIN live :
              (merge_rule(f) = "merge" /\ live[f] # newTree[f] /\ live[f] # <<>>) =>
                  /\ LinesOf(newTree[f]) \subseteq LinesOf(live'[f])
                  /\ BackedUp(backups', f, live[f])]_vars

\* C10 (as claimed): a process_all pass made after an earlier pass over the
\* same new tree changes no live file and no backup.  Stated for passes with
\* auto on, as update_etc makes them, where it already fails.
C10_SecondPassIdempotent ==
    [][(IsPass /\ pass >= 1 /\ auto /\ auto') =>
          (live' = live /\ backups' = backups)]_vars

\* C11: in a process_all pass, a live file that exists, differs from its new
\* counterpart and has a name ending in neither .conf nor .cfg keeps its
\* content, and that content is in a backup afterwards.
C11_KeepLocalFrame ==
    [][IsPass =>
          \A f \in DOMAIN newTree \cap DOMAIN live :
              (KeepLocalName(f) /\ live[f] # newTree[f]) =>
                  /\ live'[f] = live[f]
                  /\ BackedUp(backups', f, live[f])]_vars

\* C11's case: after a pass the keep-local file still differs from its new
\* counterpart and a backup holds its content.
C11_Witness ==
    /\ pass >= 1
    /\ Motd \in DOMAIN live \cap DOMAIN newTree
    /\ live[Motd] # newTree[Motd]
    /\ BackedUp(backups, Motd, live[Motd])

\* C12: in a process_all pass, a live file identical to its new counterpart
\* is left as it is and gets no backup; a file of the new tree that is absent
\* from the live tree is installed with the new content and gets no backup.
C12_IdenticalOrAbsent ==
    [][IsPass =>
          \A f \in DOMAIN newTree :
              /\ (f \in DOMAIN live /\ live[f] = newTree[f]) =>
                     (live'[f] = live[f] /\ NoBackupOf(f))
              /\ f \notin DOMAIN live =>
                     (f \in DOMAIN live' /\ live'[f] = newTree[f] /\ NoBackupOf(f))]_vars

\* C12's case: a pass has stored a backup for one file and none for the
\* other, which now equals its new counterpart (it was identical or absent).
C12_Witness ==
    /\ pass = 1
    /\ \E f, g \in DOMAIN newTree \cap DOMAIN live :
          /\ live[f] = newTree[f]
          /\ \A k \in DOMAIN backups : k[2] # f
          /\ \E k \in DOMAIN backups : k[2] = g

\* C13 (as claimed): update_auto and update_group change the recorded
\* installed version of a package only when the rebuild of that package
\* succeeds, so that after a failed rebuild the old version is still recorded.
C13_AdvanceOnlyOnSuccess ==
    [][(IsCall("update_auto") \/ IsCall("update_group")) =>
          \A n \in DOMAIN installed_packages :
              installed_packages'[n] # installed_packages[n] => rebuildOk[n]]_vars

\* C14: check_updates leaves in versions exactly one descriptor for every
\* installed package that the manifest lists with another version, holding
\* the installed version, the manifest's version, policy and group, and no
\* descriptor for any other package.
C14_CheckUpdates ==
    [][IsCall("check_updates") =>
          /\ DOMAIN versions' = Outdated
          /\ \A n \in Outdated :
                versions'[n] = <<installed_packages[n], manifest[n].version,
                                 manifest[n].update_policy, manifest[n].group>>
          /\ installed_packages' = installed_packages]_vars

\* C14's case: check_updates has reported one installed package and left out
\* another, which the manifest lists with the installed version or not at all.
C14_Witness ==
    /\ lastCall = "check_updates"
    /\ \E n, m \in DOMAIN installed_packages :
          /\ n \in DOMAIN versions /\ versions[n][1] # versions[n][2]
          /\ m \notin DOMAIN versions

\* C15: under every interleaving of registrar_pacote calls, at most one
\* thread is inside the locked region, the database holds a record under
\* exactly the names that have been written, each record under its own name,
\* and the record under a name is that of the last thread, in the order the
\* lock was taken, that wrote a record for that name (so a write for one name
\* never loses or alters the record of another).
C15_AtomicUpsert ==
    /\ Cardinality({t \in Threads : regPc[t] \in {"locked", "written"}}) <= 1
    /\ DOMAIN pacotes = {regPkg[t].nome : t \in Writers}
    /\ \A n \in DOMAIN pacotes :
          /\ pacotes[n].nome = n
          /\ LastWriter(n, lockOrder) \in Threads
          /\ pacotes[n] = regPkg[LastWriter(n, lockOrder)]

\* C15's case: all three calls have returned; two of them registered
\* different versions under one name and the third another name.
C15_Witness ==
    /\ \A t \in Threads : regPc[t] = "done"
    /\ \E t, u, w \in Threads :
          /\ regPkg[t].nome = regPkg[u].nome
          /\ regPkg[t].versao # regPkg[u].versao
          /\ regPkg[w].nome # regPkg[t].nome
          /\ DOMAIN pacotes = {regPkg[t].nome, regPkg[w].nome}

\* C16 (as claimed): while a build is in flight, a step of another build of
\* a different package never removes the first build's work dir from the
\* sandbox root, and never retargets the build and install paths or the
\* environment configured for the first build.
C16_ExclusiveSandbox ==
    [][\A b, c \in Builders :
          /\ (/\ b # c /\ sbPc[b] = "working" /\ sbPc'[c] # sbPc[c]
              /\ sbPkg'[c] # sbPkg[b] /\ sbPkg[b] \in sandbox.dirs)
             => sbPkg[b] \in sandbox'.dirs
          /\ (/\ b # c /\ cfgPc[b] = "configured" /\ cfgPc'[c] # cfgPc[c]
              /\ cfgNome'[c] # cfgNome[b]
              /\ gsandbox = configurar_sandbox(gsandbox, cfgNome[b]))
             => gsandbox' = gsandbox]_vars

\* C17: an instalar_pacote call with usar_binario on for a recipe with
\* binario_disponivel executes none of download, configure, compile, tests
\* and post_build hooks, and installs the binary; every other call executes
\* download, configure, compile, the post_build hooks and the installation
\* into the sandbox, and the tests when they are asked for and the recipe
\* has some.
C17_BinaryShortCircuit ==
    lastInst.state # "none" =>
        /\ BinaryRequest =>
              /\ StepsDone \cap {"download", "configure", "compile",
                                  "rodar_testes", "post_build"} = {}
              /\ "install_binary" \in StepsDone
        /\ ~BinaryRequest =>
              /\ {"download", "configure", "compile", "post_build",
                   "install_sandbox"} \subseteq StepsDone
              /\ (lastInst.rodar_testes /\ lastInst.receita.testes # "none")
                     => "rodar_testes" \in StepsDone

\* C17's case: a binary-install request for a recipe with a binary and a
\* required test has gone from the pre_download hooks straight to the
\* installation.
C17_Witness ==
    /\ lastInst.state = "DONE" /\ BinaryRequest
    /\ lastInst.rodar_testes /\ lastInst.receita.testes = "required"
    /\ lastInst.steps = <<"pre_download", "install_binary", "post_install",
                           "registrar_pacote">>

\* C18 (as claimed): an instalar_pacote call in which a pre_download or
\* pre_build hook command fails ends FAILED without compile, installation or
\* registration; one in which a post_build or post_install hook command fails
\* still registers the package.
C18_HookGate ==
    lastInst.state # "none" =>
        /\ lastInst.hookFail \in {"pre_download", "pre_build"} =>
              /\ lastInst.state = "FAILED"
              /\ StepsDone \cap {"compile", "install_binary", "install_sandbox",
                                  "registrar_pacote"} = {}
        /\ lastInst.hookFail \in {"post_build", "post_install"} =>
              /\ "registrar_pacote" \in StepsDone
              /\ lastInst.receita.nome \in DOMAIN pacotes

\* C19 (as claimed): a snapshot stored under a (timestamp, relative path)
\* pair is never replaced by another content and never removed, whatever
\* passes follow, those within the same clock second included.
C19_BackupsWriteOnce ==
    [][\A k \in DOMAIN backups :
          k \in DOMAIN backups' /\ backups'[k] = backups[k]]_vars

C21_NotifyPolicyFrozen ==
    [][/\ \A n \in DOMAIN installed_packages \cap DOMAIN manifest :
             manifest[n].update_policy = "notify" =>
                 (n \in DOMAIN installed_packages'
                  /\ installed_packages'[n] = installed_packages[n])
       /\ IsCall("notify") =>
             (installed_packages' = installed_packages /\ versions' = versions)]_vars

\* C21's case: after check_updates, an update and a notify call, a package
\* reported with the policy notify still has its old version recorded while
\* a package reported with the policy auto has been advanced.
C21_Witness ==
    /\ lastCall = "notify"
    /\ \E n, m \in DOMAIN versions :
          /\ versions[n][3] = "notify" /\ manifest[n].update_policy = "notify"
          /\ installed_packages[n] = versions[n][1]
          /\ installed_packages[n] # manifest[n].version
          /\ versions[m][3] = "auto"
          /\ installed_packages[m] = versions[m][2]
          /\ versions[m][1] # versions[m][2]

====
